---- MODULE Spec2Model ----
(***************************************************************************)
(* Model of the snake game of src/main.rs: the Unit / Head / Snake value   *)
(* types, the fruit, and the frame loop of main().                         *)
(*                                                                         *)
(* Numbers.  The program computes in f32.  The model computes in          *)
(* fixed-point: a world coordinate c is the integer c * Scale, a time is   *)
(* an integer number of milliseconds, an angle an integer number of        *)
(* milliradians.  Every operation that rounds in f32 truncates toward zero *)
(* here (TruncDiv, Sqrt).  The one non-finite value the program can make,  *)
(* the NaN of normalizing a zero vector, is the value NaN: arithmetic      *)
(* carries it along and every comparison with it is false.                 *)
(***************************************************************************)
EXTENDS Integers, Sequences, FiniteSets, TLC

\* ------------------------------------------------------------------ bounds
MaxFrames == 4      \* frames of the main loop that are explored
MaxUnits  == 3      \* body units a snake may grow to in the explored runs
RandMax   == 10     \* the random source returns 0..RandMax (u32::MAX in the program)
Tol       == 2      \* rounding slack of a computed position, in fixed-point units

\* --------------------------------------------------------------- constants
Scale == 1000                   \* fixed-point units per world unit (f32 1.0)
INIT_SPEED == 400               \* 0.4  world units per second
UNIT_RADIUS == 40               \* 0.04
FRUIT_RADIUS == 60              \* 0.06
ROTATION_PER_SEC_RAD == 2000    \* 2.0 rad per second
FIELD_SIZE == 2000              \* 2.0

\* ------------------------------------------------------ fixed-point helpers
Abs(a) == IF a < 0 THEN -a ELSE a

\* a / b truncated toward zero (b > 0)
TruncDiv(a, b) == IF a >= 0 THEN a \div b ELSE -((-a) \div b)

RECURSIVE SqrtSearch(_, _, _)
SqrtSearch(n, lo, hi) ==
    IF lo >= hi THEN lo
    ELSE LET mid == (lo + hi + 1) \div 2
         IN  IF mid * mid <= n THEN SqrtSearch(n, mid, hi)
                               ELSE SqrtSearch(n, lo, mid - 1)

\* square root, truncated
Sqrt(n) == SqrtSearch(n, 0, 4096)

\* ------------------------------------------------------------------- Vec2
Vec(x, y) == [x |-> x, y |-> y]
ZERO == Vec(0, 0)
X == Vec(Scale, 0)

\* f32::NAN
NaN == -1073741824

\* Vec2::is_finite
Finite(v) == v.x # NaN /\ v.y # NaN

VAdd(a, b) == IF Finite(a) /\ Finite(b) THEN Vec(a.x + b.x, a.y + b.y) ELSE Vec(NaN, NaN)
VSub(a, b) == IF Finite(a) /\ Finite(b) THEN Vec(a.x - b.x, a.y - b.y) ELSE Vec(NaN, NaN)

\* f32 * f32
FMul(a, b) == TruncDiv(a * b, Scale)

\* Vec2 * f32
VMul(a, k) == IF Finite(a) /\ k # NaN THEN Vec(FMul(a.x, k), FMul(a.y, k)) ELSE Vec(NaN, NaN)

length(v) == IF Finite(v) THEN Sqrt(v.x * v.x + v.y * v.y) ELSE NaN

distance(a, b) == length(VSub(a, b))

\* Vec2::normalize: v * (1 / |v|), which is NaN in both components for |v| = 0
normalize(v) ==
    IF ~Finite(v) \/ length(v) = 0
    THEN Vec(NaN, NaN)
    ELSE Vec(TruncDiv(v.x * Scale, length(v)), TruncDiv(v.y * Scale, length(v)))

\* cos and sin of the angles (milliradians) the explored frames produce
Cos(angle) ==
    CASE angle = 0                   -> Scale
      [] Abs(angle) = 1000           -> TruncDiv(540302 * Scale, 1000000)
      [] Abs(angle) = 500            -> TruncDiv(877583 * Scale, 1000000)
      [] Abs(angle) = 5000           -> TruncDiv(283662 * Scale, 1000000)

Sin(angle) ==
    CASE angle = 0                   -> 0
      [] angle = 1000                -> TruncDiv(841471 * Scale, 1000000)
      [] angle = -1000               -> -TruncDiv(841471 * Scale, 1000000)
      [] angle = 500                 -> TruncDiv(479426 * Scale, 1000000)
      [] angle = -500                -> -TruncDiv(479426 * Scale, 1000000)
      [] angle = 5000                -> -TruncDiv(958924 * Scale, 1000000)
      [] angle = -5000               -> TruncDiv(958924 * Scale, 1000000)

\* Vec2::from_angle
from_angle(angle) == Vec(Cos(angle), Sin(angle))

\* mutant: the second component mixes up the factors
rotateSkewed(r, v) == Vec(TruncDiv(r.x * v.x - r.y * v.y, Scale),
                          TruncDiv(r.y * v.x + r.y * v.y, Scale))

\* Vec2::rotate: complex multiplication self * rhs
rotate(r, v) == Vec(TruncDiv(r.x * v.x - r.y * v.y, Scale),
                    TruncDiv(r.y * v.x + r.x * v.y, Scale))

\* ------------------------------------------------------------------- Unit
Unit(p) == [position |-> p]

\* mutant: the unit is moved all the way onto its target
UnitGoOvershoot(self, prev_unit_pos) ==
    LET to_prev  == VSub(prev_unit_pos, self.position)
        dist     == length(to_prev)
        shift    == IF dist = NaN THEN NaN ELSE dist - FMul(2 * Scale, UNIT_RADIUS)
    IN  IF shift # NaN /\ shift > 0
        THEN Unit(VAdd(self.position, VMul(normalize(to_prev), dist)))
        ELSE self

\* mutant: the shift is applied without the test shift > 0
UnitGoUnguarded(self, prev_unit_pos) ==
    LET to_prev  == VSub(prev_unit_pos, self.position)
        dist     == length(to_prev)
        shift    == IF dist = NaN THEN NaN ELSE dist - FMul(2 * Scale, UNIT_RADIUS)
    IN  Unit(VAdd(self.position, VMul(normalize(to_prev), shift)))

\* Unit::go
UnitGo(self, prev_unit_pos) ==
    LET to_prev  == VSub(prev_unit_pos, self.position)
        dist     == length(to_prev)
        shift    == IF dist = NaN THEN NaN ELSE dist - FMul(2 * Scale, UNIT_RADIUS)
    IN  IF shift # NaN /\ shift > 0
        THEN Unit(VAdd(self.position, VMul(normalize(to_prev), shift)))
        ELSE self

\* mutant: circles that just touch count as intersecting
UnitIntersectInclusive(self, position, radius) ==
    /\ distance(self.position, position) # NaN
    /\ distance(self.position, position) <= radius + UNIT_RADIUS

\* Unit::intersect
UnitIntersect(self, position, radius) ==
    /\ distance(self.position, position) # NaN
    /\ distance(self.position, position) < radius + UNIT_RADIUS

\* ------------------------------------------------------------------ Fruit
\* rand_f32 applied to the value r returned by rand::rand()
rand_f32(r) == TruncDiv(r * Scale, RandMax)

\* mutant: the coordinates are not shifted by -1.0
random_positionUnshifted(r1, r2) == Vec(rand_f32(r1) * 2, rand_f32(r2) * 2)

\* random_position from two draws of the random source
random_position(r1, r2) == Vec(rand_f32(r1) * 2 - Scale, rand_f32(r2) * 2 - Scale)

\* Fruit::respawn, for the two draws it consumes
respawn(r1, r2) == [position |-> random_position(r1, r2)]

\* the values of the random source in the explored runs
RandSet == {0, RandMax \div 2, RandMax \div 2 + 1, RandMax}

\* every fruit Fruit::respawn returns in the explored runs
Respawns == { respawn(r1, r2) : r1 \in RandSet, r2 \in RandSet }

\* ------------------------------------------------------------------- Head
\* Head::rotate
HeadRotate(self, angle) ==
    [self EXCEPT !.direction = rotate(from_angle(angle), self.direction)]

\* Head::go
HeadGo(self, dt) ==
    [self EXCEPT !.unit.position =
        VAdd(self.unit.position, VMul(self.direction, FMul(self.speed, dt)))]

\* Head::position
HeadPosition(self) == self.unit.position

\* Head::intersect
HeadIntersect(self, position, radius) == UnitIntersect(self.unit, position, radius)

\* ------------------------------------------------------------------ Snake
\* mutant: every unit follows the position its leader had before the call
FollowStale(units, i, prev_unit_pos) ==
    [k \in DOMAIN units |->
        UnitGo(units[k], IF k = 1 THEN prev_unit_pos ELSE units[k - 1].position)]

\* mutant: prev_unit_pos is not updated in the loop, every unit follows the head
FollowHead(units, i, prev_unit_pos) ==
    [k \in DOMAIN units |-> UnitGo(units[k], prev_unit_pos)]

\* the loop of Snake::go over the body, from unit i on, prev_unit_pos carried along
RECURSIVE Follow(_, _, _)
Follow(units, i, prev_unit_pos) ==
    IF i > Len(units) THEN units
    ELSE LET moved == UnitGo(units[i], prev_unit_pos)
         IN  Follow([units EXCEPT ![i] = moved], i + 1, moved.position)

\* mutant: the head is advanced before it is rotated
SnakeGoAdvanceFirst(self, dt, rotation) ==
    LET angle == FMul(rotation, dt)
        head  == HeadRotate(HeadGo(self.head, dt), angle)
    IN  [head |-> head, units |-> Follow(self.units, 1, HeadPosition(head))]

\* Snake::go
SnakeGo(self, dt, rotation) ==
    LET angle == FMul(rotation, dt)
        head  == HeadGo(HeadRotate(self.head, angle), dt)
    IN  [head |-> head, units |-> Follow(self.units, 1, HeadPosition(head))]

\* Snake::can_eat
can_eat(self, fruit) == HeadIntersect(self.head, fruit.position, FRUIT_RADIUS)

\* mutant: the first body unit is not skipped
intersect_unitNoSkip(self) ==
    \E i \in 1..Len(self.units) :
        HeadIntersect(self.head, self.units[i].position, FMul(UNIT_RADIUS, (8 * Scale) \div 10))

\* the two conditions of Snake::is_lose
intersect_unit(self) ==
    \E i \in 2..Len(self.units) :
        HeadIntersect(self.head, self.units[i].position, FMul(UNIT_RADIUS, (8 * Scale) \div 10))

\* mutant: the wall margin is the diameter of a unit
max_coordDiameter == FIELD_SIZE \div 2 - 2 * UNIT_RADIUS

max_coord == FIELD_SIZE \div 2 - UNIT_RADIUS

\* mutant: a body unit beyond the wall counts as well
intersect_wallAnyUnit(self) ==
    \/ Abs(HeadPosition(self.head).x) > FIELD_SIZE \div 2 - UNIT_RADIUS
    \/ Abs(HeadPosition(self.head).y) > FIELD_SIZE \div 2 - UNIT_RADIUS
    \/ \E i \in 1..Len(self.units) :
          \/ Abs(self.units[i].position.x) > FIELD_SIZE \div 2 - UNIT_RADIUS
          \/ Abs(self.units[i].position.y) > FIELD_SIZE \div 2 - UNIT_RADIUS

intersect_wall(self) ==
    \/ Abs(HeadPosition(self.head).x) > max_coord
    \/ Abs(HeadPosition(self.head).y) > max_coord

\* Snake::is_lose
is_lose(self) == intersect_unit(self) \/ intersect_wall(self)

\* mutant: the new unit is always a copy of the head's unit
add_unitAtHead(self) ==
    [self EXCEPT !.units = Append(self.units, self.head.unit)]

\* Snake::add_unit
add_unit(self) ==
    LET last_unit == IF Len(self.units) > 0 THEN self.units[Len(self.units)]
                                            ELSE self.head.unit
    IN  [self EXCEPT !.units = Append(self.units, last_unit)]

\* mutant: the head is not counted
SnakeLengthNoHead(self) == Len(self.units)

\* Snake::length
SnakeLength(self) == Len(self.units) + 1

\* Snake::default
DefaultSnake ==
    [head  |-> [unit |-> Unit(ZERO), direction |-> X, speed |-> INIT_SPEED],
     units |-> <<>>]

\* ------------------------------------------------------------- main: state
VARIABLES
    snake,      \* main's local snake
    fruit,      \* main's local fruit
    dt,         \* frame time of the current frame (seconds, fixed-point)
    keys,       \* is_key_down(Left), is_key_down(Right) as polled this frame
    rotation,   \* main's local rotation
    pc,         \* the statement of the loop body main is at
    score,      \* the number last drawn by draw_text
    frames,     \* completed frames
    log,        \* the calls main has made since the frame began, in order
    eaten       \* eat checks that were true since the last reset (or the start)

vars == <<snake, fruit, dt, keys, rotation, pc, score, frames, log, eaten>>

\* frame times get_frame_time() returns in the explored runs
DtSet == {0, 250, 2500}

\* mutant: Snake.go moved in front of the two checks
AfterGoFirst(p) ==
    CASE p = "input" -> "go"
      [] p = "go"    -> "eat"
      [] p = "eat"   -> "lose"
      [] p = "lose"  -> "draw"
      [] p = "draw"  -> "input"

\* mutant: the loss check moved in front of the eat check
AfterLoseFirst(p) ==
    CASE p = "input" -> "lose"
      [] p = "lose"  -> "eat"
      [] p = "eat"   -> "go"
      [] p = "go"    -> "draw"
      [] p = "draw"  -> "input"

\* the order of the statements of the loop body
After(p) ==
    CASE p = "input" -> "eat"
      [] p = "eat"   -> "lose"
      [] p = "lose"  -> "go"
      [] p = "go"    -> "draw"
      [] p = "draw"  -> "input"

Init ==
    /\ snake = DefaultSnake
    /\ fruit \in Respawns
    /\ dt = 0
    /\ keys = [left |-> FALSE, right |-> FALSE]
    /\ rotation = 0
    /\ pc = "input"
    /\ score = 0
    /\ frames = 0
    /\ log = <<>>
    /\ eaten = 0

\* mutant: the right key is only looked at when the left key is up
SelectRotationLeftWins(left, right) ==
    IF left THEN ROTATION_PER_SEC_RAD
    ELSE IF right THEN -ROTATION_PER_SEC_RAD ELSE 0

\* the rotation main selects from the two keys
SelectRotation(left, right) ==
    LET r0 == 0
        r1 == IF left THEN ROTATION_PER_SEC_RAD ELSE r0
    IN  IF right THEN -ROTATION_PER_SEC_RAD ELSE r1

\* lines 203-211: frame time and keys
ReadInput ==
    /\ pc = "input"
    /\ frames < MaxFrames
    /\ \E d \in DtSet, left \in BOOLEAN, right \in BOOLEAN :
          /\ dt' = d
          /\ keys' = [left |-> left, right |-> right]
          /\ rotation' = SelectRotation(left, right)
    /\ log' = <<"input">>
    /\ pc' = After(pc)
    /\ UNCHANGED <<snake, fruit, score, frames, eaten>>

\* lines 213-216: the eat check
EatCheck ==
    /\ pc = "eat"
    /\ IF can_eat(snake, fruit)
       THEN /\ Len(snake.units) < MaxUnits
            /\ fruit' \in Respawns
            /\ snake' = add_unit(snake)
            /\ log' = log \o <<"can_eat", "respawn", "add_unit">>
            /\ eaten' = eaten + 1
       ELSE /\ UNCHANGED <<snake, fruit, eaten>>
            /\ log' = Append(log, "can_eat")
    /\ pc' = After(pc)
    /\ UNCHANGED <<dt, keys, rotation, score, frames>>

\* mutant: the reset keeps the body of the lost snake
LoseCheckKeepsBody ==
    /\ pc = "lose"
    /\ IF is_lose(snake)
       THEN /\ snake' = [DefaultSnake EXCEPT !.units = snake.units]
            /\ fruit' \in Respawns
            /\ log' = log \o <<"is_lose", "default", "respawn">>
            /\ eaten' = 0
       ELSE /\ UNCHANGED <<snake, fruit, eaten>>
            /\ log' = Append(log, "is_lose")
    /\ pc' = After(pc)
    /\ UNCHANGED <<dt, keys, rotation, score, frames>>

\* mutant: the reset empties the body and leaves the head where it is
LoseCheckKeepsHead ==
    /\ pc = "lose"
    /\ IF is_lose(snake)
       THEN /\ snake' = [snake EXCEPT !.units = <<>>]
            /\ fruit' \in Respawns
            /\ log' = log \o <<"is_lose", "default", "respawn">>
            /\ eaten' = 0
       ELSE /\ UNCHANGED <<snake, fruit, eaten>>
            /\ log' = Append(log, "is_lose")
    /\ pc' = After(pc)
    /\ UNCHANGED <<dt, keys, rotation, score, frames>>

\* lines 218-221: the loss check and the reset
LoseCheck ==
    /\ pc = "lose"
    /\ IF is_lose(snake)
       THEN /\ snake' = DefaultSnake
            /\ fruit' \in Respawns
            /\ log' = log \o <<"is_lose", "default", "respawn">>
            /\ eaten' = 0
       ELSE /\ UNCHANGED <<snake, fruit, eaten>>
            /\ log' = Append(log, "is_lose")
    /\ pc' = After(pc)
    /\ UNCHANGED <<dt, keys, rotation, score, frames>>

\* line 224: snake.go(dt, rotation)
Go ==
    /\ pc = "go"
    /\ snake' = SnakeGo(snake, dt, rotation)
    /\ log' = Append(log, "go")
    /\ pc' = After(pc)
    /\ UNCHANGED <<fruit, dt, keys, rotation, score, frames, eaten>>

\* lines 225-231: draw, score text, next_frame
Draw ==
    /\ pc = "draw"
    /\ score' = SnakeLength(snake) - 1
    /\ frames' = frames + 1
    /\ log' = Append(log, "draw")
    /\ pc' = After(pc)
    /\ UNCHANGED <<snake, fruit, dt, keys, rotation, eaten>>

Next == ReadInput \/ EatCheck \/ LoseCheck \/ Go \/ Draw

Spec == Init /\ [][Next]_vars

\* ------------------------------------------------- one frame from any state
\* Snake::go, can_eat, is_lose and add_unit take any snake and any fruit.
\* SpecFn runs one frame of the loop from each snake and fruit drawn below.
HeadProbe ==
    { Vec(0, 0), Vec(max_coord, 0), Vec(max_coord + 1, 0), Vec(-max_coord, 0),
      Vec(-max_coord - 1, 0), Vec(0, max_coord), Vec(0, max_coord + 1),
      Vec(0, -max_coord), Vec(0, -max_coord - 1), Vec(900, -900),
      Vec(max_coord, max_coord) }

\* body unit positions, relative to the head
UnitProbe ==
    { Vec(0, 0), Vec(71, 0), Vec(72, 0), Vec(-43, -57), Vec(-43, -58),
      Vec(48, 64), Vec(-80, 5), Vec(-200, 150), Vec(300, 0) }

\* fruit positions, relative to the head
FruitProbe ==
    { Vec(0, 0), Vec(99, 0), Vec(100, 0), Vec(-60, -80), Vec(-60, -79), Vec(500, 500),
      Vec(UNIT_RADIUS, UNIT_RADIUS) }

UnitsProbe ==
    {<<>>} \cup { <<Unit(a)>> : a \in UnitProbe }
           \cup { <<Unit(a), Unit(b)>> : a \in UnitProbe, b \in UnitProbe }

ShiftUnits(units, by) == [i \in DOMAIN units |-> Unit(VAdd(units[i].position, by))]

InitFn ==
    /\ \E h \in HeadProbe, us \in UnitsProbe, f \in FruitProbe :
          /\ snake = [head  |-> [DefaultSnake.head EXCEPT !.unit = Unit(h)],
                      units |-> ShiftUnits(us, h)]
          /\ fruit = [position |-> VAdd(h, f)]
    /\ dt = 0
    /\ keys = [left |-> FALSE, right |-> FALSE]
    /\ rotation = 0
    /\ pc = "input"
    /\ score = 0
    /\ frames = MaxFrames - 1
    /\ log = <<>>
    /\ eaten = Len(snake.units)

SpecFn == InitFn /\ [][Next]_vars

\* ---------------------------------------------------------------- helpers
Dist2(a, b) == (a.x - b.x) * (a.x - b.x) + (a.y - b.y) * (a.y - b.y)

Count(l, op) == Cardinality({ i \in DOMAIN l : l[i] = op })

Has(l, op) == \E i \in DOMAIN l : l[i] = op

\* every occurrence of a comes before every occurrence of b
Before(l, a, b) == \A i \in DOMAIN l, j \in DOMAIN l : l[i] = a /\ l[j] = b => i < j

\* the frame whose calls log holds has run to its end
FrameDone == pc = "input" /\ frames > 0

\* ------------------------------------------------------------------- C1
\* C1 as stated: in every frame Snake.go runs before the eat check, which
\* runs before the loss check, which runs before the rendering.
C1_GoBeforeChecks ==
    /\ Has(log, "can_eat") => Has(log, "go")
    /\ Before(log, "go", "can_eat")
    /\ Before(log, "can_eat", "is_lose")
    /\ Before(log, "is_lose", "draw")

\* C1 amended: in every frame the input is read, then the eat check runs, then
\* the loss check (with the reset), then Snake.go, then the rendering; the two
\* checks run before that frame's Snake.go has moved the snake.
C1_ChecksBeforeGo ==
    /\ Before(log, "input", "can_eat")
    /\ Before(log, "can_eat", "is_lose")
    /\ Before(log, "is_lose", "go")
    /\ Before(log, "go", "draw")
    /\ Has(log, "go") => Has(log, "can_eat") /\ Has(log, "is_lose")
    /\ FrameDone => /\ Count(log, "input") = 1 /\ Count(log, "can_eat") = 1
                    /\ Count(log, "is_lose") = 1 /\ Count(log, "go") = 1
                    /\ Count(log, "draw") = 1

\* a frame that ate, lost and moved has run to its end
C1_Witness ==
    /\ FrameDone
    /\ Has(log, "add_unit") /\ Has(log, "default") /\ dt > 0

\* ------------------------------------------------------------------- C2
\* C2: the eat check comes before the loss check; a frame in which both are
\* true grows the snake first and resets it afterwards, and the snake that
\* leaves the frame is the default snake advanced by that frame's Snake.go,
\* with no body unit.
C2_GrowthDiscarded ==
    /\ Before(log, "can_eat", "is_lose")
    /\ Before(log, "add_unit", "default")
    /\ (Has(log, "add_unit") /\ Has(log, "default") /\ Has(log, "go")) =>
          /\ Len(snake.units) = 0
          /\ snake = SnakeGo(DefaultSnake, dt, rotation)
    /\ (Has(log, "add_unit") /\ Has(log, "default") /\ FrameDone) => score = 0

C2_Witness ==
    /\ FrameDone
    /\ Has(log, "add_unit") /\ Has(log, "default")
    /\ score = 0 /\ dt > 0 /\ snake.head.unit.position # ZERO

\* ------------------------------------------------------------------- C3
\* C3: a frame whose loss check is true replaces the snake by the snake with
\* its head at the field centre, direction (1,0), speed INIT_SPEED and no body
\* unit, and respawns the fruit inside the field; the score drawn in that frame
\* is 0; a frame whose loss check is false keeps its snake and fruit.
C3_LossStep ==
    pc = "lose" =>
        IF is_lose(snake)
        THEN /\ snake'.head.unit.position = Vec(0, 0)
             /\ snake'.head.direction = Vec(Scale, 0)
             /\ snake'.head.speed = INIT_SPEED
             /\ snake'.units = <<>>
             /\ Abs(fruit'.position.x) <= FIELD_SIZE \div 2
             /\ Abs(fruit'.position.y) <= FIELD_SIZE \div 2
             /\ Has(log', "default")
        ELSE /\ snake' = snake /\ fruit' = fruit
             /\ ~Has(log', "default")

C3_ResetOnLoss ==
    /\ [][C3_LossStep]_vars
    /\ [](FrameDone /\ Has(log, "default") => score = 0)

C3_Witness ==
    /\ FrameDone /\ Has(log, "default") /\ ~Has(log, "add_unit") /\ score = 0

\* ------------------------------------------------------------------- C4
\* the position unit i of the body follows: the head for the first unit, the
\* unit before it for the others
Leader(sn, i) == IF i = 1 THEN sn.head.unit.position ELSE sn.units[i - 1].position

\* C4: in every state the main loop reaches, the distance between the head and
\* the first body unit and between every two neighbouring body units is at
\* most 2 * UNIT_RADIUS (up to the rounding of a computed position).
C4_ChainAdjacent ==
    \A i \in 1..Len(snake.units) :
        distance(Leader(snake, i), snake.units[i].position) <= 2 * UNIT_RADIUS + Tol

\* a snake of two body units, both pulled to the clamp distance by Snake.go
C4_Witness ==
    /\ Has(log, "go") /\ dt > 0
    /\ Len(snake.units) >= 2
    /\ \A i \in 1..2 :
          distance(Leader(snake, i), snake.units[i].position) >= 2 * UNIT_RADIUS

\* ------------------------------------------------------------------- C5
\* the head is closer to the fruit than FRUIT_RADIUS + UNIT_RADIUS
HeadTouchesFruit(sn, fr) ==
    Dist2(sn.head.unit.position, fr.position)
        < (FRUIT_RADIUS + UNIT_RADIUS) * (FRUIT_RADIUS + UNIT_RADIUS)

\* C5 as stated: a frame in which can_eat is true performs exactly one growth
\* and exactly one fruit respawn, and leaves the body one unit longer.
C5_OneRespawnInEatingFrame ==
    (FrameDone /\ Has(log, "add_unit")) =>
        /\ Count(log, "add_unit") = 1
        /\ Count(log, "respawn") = 1
        /\ Len(snake.units) >= 1

C5_EatStep ==
    pc = "eat" =>
        IF HeadTouchesFruit(snake, fruit)
        THEN /\ can_eat(snake, fruit)
             /\ Len(snake'.units) = Len(snake.units) + 1
             /\ Count(log', "add_unit") = 1
             /\ Count(log', "respawn") = 1
        ELSE /\ ~can_eat(snake, fruit)
             /\ snake' = snake /\ fruit' = fruit
             /\ Count(log', "add_unit") = 0
             /\ Count(log', "respawn") = 0

\* C5 amended: can_eat is true exactly when the head is closer to the fruit
\* than FRUIT_RADIUS + UNIT_RADIUS; the eat check of a frame in which it is
\* true performs exactly one add_unit (body count +1) and one respawn; no
\* frame grows twice, and the only other respawn of a frame is the one of the
\* reset, when the loss check of the same frame is true as well.
C5_EatOncePerFrame ==
    /\ [][C5_EatStep]_vars
    /\ [](/\ Count(log, "add_unit") <= 1
          /\ Count(log, "default") <= 1
          /\ Count(log, "respawn") = Count(log, "add_unit") + Count(log, "default"))

\* a frame that ate and did not lose: one growth, one respawn
C5_Witness ==
    /\ FrameDone
    /\ Count(log, "add_unit") = 1 /\ Count(log, "respawn") = 1
    /\ Len(snake.units) >= 1

\* ------------------------------------------------------------------- C6
\* the position is outside the playable half-extent on some axis, on some side
BeyondWall(p) ==
    LET bound == FIELD_SIZE \div 2 - UNIT_RADIUS
    IN  p.x > bound \/ p.x < -bound \/ p.y > bound \/ p.y < -bound

\* some body unit other than the first is closer to the head than
\* 0.8 * UNIT_RADIUS + UNIT_RADIUS
BitesBody(sn) ==
    LET reach == (8 * UNIT_RADIUS) \div 10 + UNIT_RADIUS
    IN  \E i \in 2..Len(sn.units) :
            Dist2(sn.head.unit.position, sn.units[i].position) < reach * reach

\* C6: the wall condition of is_lose is true exactly when |head.x| or |head.y|
\* is strictly greater than FIELD_SIZE/2 - UNIT_RADIUS, and it depends on the
\* head only: where no body unit is bitten, is_lose is that condition of the
\* head, wherever the body units are.
C6_WallOnlyHead ==
    /\ intersect_wall(snake) <=> BeyondWall(snake.head.unit.position)
    /\ is_lose([snake EXCEPT !.units = <<>>]) <=> BeyondWall(snake.head.unit.position)
    /\ ~BitesBody(snake) => (is_lose(snake) <=> BeyondWall(snake.head.unit.position))

\* head exactly on the bound, a body unit outside the field, not lost
C6_Witness ==
    /\ pc = "go" /\ Has(log, "is_lose") /\ ~Has(log, "default")
    /\ Abs(snake.head.unit.position.x) = FIELD_SIZE \div 2 - UNIT_RADIUS
    /\ \E i \in 1..Len(snake.units) : Abs(snake.units[i].position.x) > FIELD_SIZE \div 2
    /\ ~is_lose(snake)

\* ------------------------------------------------------------------- C7
\* C7: for a head inside the playable area is_lose is true exactly when some
\* body unit of index >= 1 (counted from 0) is closer to the head than
\* 0.8 * UNIT_RADIUS + UNIT_RADIUS; the unit of index 0 never counts.
C7_NeckIgnored ==
    ~BeyondWall(snake.head.unit.position) => (is_lose(snake) <=> BitesBody(snake))

\* the first body unit overlaps the head and the snake is not lost
C7_Witness ==
    /\ pc = "go" /\ Has(log, "is_lose") /\ ~Has(log, "default")
    /\ Len(snake.units) >= 2
    /\ Dist2(snake.head.unit.position, snake.units[1].position) < UNIT_RADIUS * UNIT_RADIUS
    /\ ~BeyondWall(snake.head.unit.position)
    /\ ~is_lose(snake)

\* ------------------------------------------------------------------- C8
Cross(a, b) == a.x * b.y - a.y * b.x
Dot(a, b) == a.x * b.x + a.y * b.y

\* Unit.go moved a unit from u to v for the target t
FollowClamp(u, t, v) ==
    /\ Dist2(u, t) <= (2 * UNIT_RADIUS) * (2 * UNIT_RADIUS) => v = u
    /\ Dist2(u, t) > (2 * UNIT_RADIUS) * (2 * UNIT_RADIUS) =>
          /\ distance(v, t) >= 2 * UNIT_RADIUS
          /\ distance(v, t) <= 2 * UNIT_RADIUS + Tol
          /\ Abs(Cross(VSub(v, u), VSub(t, u))) <= Tol * (length(VSub(t, u)) + 1)
          /\ Dot(VSub(v, u), VSub(t, u)) >= 0
    /\ Dist2(v, t) <= Dist2(u, t)

C8_GoStep ==
    pc = "go" =>
        \A i \in 1..Len(snake.units) :
            FollowClamp(snake.units[i].position, Leader(snake', i), snake'.units[i].position)

\* C8: Unit.go leaves a unit where it is when its target is at most
\* 2 * UNIT_RADIUS away, and otherwise moves it along the segment to the target
\* to the distance 2 * UNIT_RADIUS from it (up to the rounding of a computed
\* position); the distance to the target never increases.
C8_FollowClamp == [][C8_GoStep]_vars

\* Snake.go has pulled the first body unit to the clamp distance
C8_Witness ==
    /\ pc = "draw" /\ dt > 0
    /\ Len(snake.units) >= 1
    /\ distance(snake.head.unit.position, snake.units[1].position) >= 2 * UNIT_RADIUS
    /\ distance(snake.head.unit.position, snake.units[1].position) <= 2 * UNIT_RADIUS + Tol

\* ------------------------------------------------------------------- C9
C9_EatStep ==
    (pc = "eat" /\ can_eat(snake, fruit)) =>
        LET n == Len(snake.units)
        IN  /\ Len(snake'.units) = n + 1
            /\ snake'.head = snake.head
            /\ \A i \in 1..n : snake'.units[i] = snake.units[i]
            /\ snake'.units[n + 1].position =
                  IF n = 0 THEN snake.head.unit.position ELSE snake.units[n].position

\* C9: add_unit appends exactly one unit at the tail, at the position of the
\* last body unit (of the head when the body is empty), and leaves the head and
\* the existing body units as they are.
C9_AppendAtTail == [][C9_EatStep]_vars

\* a unit was appended behind a last body unit that is not where the head is
C9_Witness ==
    /\ pc = "lose" /\ Has(log, "add_unit")
    /\ Len(snake.units) >= 2
    /\ snake.units[Len(snake.units)] = snake.units[Len(snake.units) - 1]
    /\ snake.units[Len(snake.units)].position # snake.head.unit.position

\* ------------------------------------------------------------------ C10
\* left only -> +rate, right only -> -rate, neither -> 0, both -> -rate
KeyRotation(k) ==
    CASE k.left /\ ~k.right  -> ROTATION_PER_SEC_RAD
      [] ~k.left /\ k.right  -> -ROTATION_PER_SEC_RAD
      [] ~k.left /\ ~k.right -> 0
      [] k.left /\ k.right   -> -ROTATION_PER_SEC_RAD

C10_GoStep ==
    pc = "go" => snake' = SnakeGo(snake, dt, KeyRotation(keys))

\* C10: the rotation passed to Snake.go is +ROTATION_PER_SEC_RAD,
\* -ROTATION_PER_SEC_RAD or 0, selected from the keys polled in the frame, and
\* right wins when both are held.
C10_RightWins ==
    /\ [](rotation \in {ROTATION_PER_SEC_RAD, -ROTATION_PER_SEC_RAD, 0})
    /\ [](pc # "input" => rotation = KeyRotation(keys))
    /\ [][C10_GoStep]_vars

\* Snake.go has run in a frame with both keys held
C10_Witness ==
    /\ pc = "draw" /\ dt > 0
    /\ keys.left /\ keys.right
    /\ rotation = -ROTATION_PER_SEC_RAD

\* ------------------------------------------------------------------ C11
C11_GoStep ==
    pc = "go" =>
        \A i \in 1..Len(snake.units) :
            LET u == snake.units[i].position
                t == Leader(snake', i)
                v == snake'.units[i].position
            IN  /\ u = t => v = u
                /\ v # u => Dist2(u, t) > (2 * UNIT_RADIUS) * (2 * UNIT_RADIUS)

\* C11: Unit.go normalizes the vector to its target only when the target is
\* more than 2 * UNIT_RADIUS away, never a zero vector: a unit that lies on
\* its target stays where it is, and every position of the snake is finite in
\* every state.
C11_NoZeroNormalize ==
    /\ [][C11_GoStep]_vars
    /\ [](/\ Finite(snake.head.unit.position)
          /\ \A i \in 1..Len(snake.units) : Finite(snake.units[i].position))

\* Snake.go has run on a body whose last unit, added in this frame, lies on
\* its target
C11_Witness ==
    /\ pc = "draw" /\ Has(log, "add_unit") /\ ~Has(log, "default")
    /\ Len(snake.units) >= 1
    /\ snake.units[Len(snake.units)].position = Leader(snake, Len(snake.units))

\* ------------------------------------------------------------------ C12
C12_GoStep ==
    pc = "go" =>
        \A i \in 1..Len(snake.units) :
            snake'.units[i] =
                UnitGo(snake.units[i],
                       IF i = 1 THEN snake'.head.unit.position
                                ELSE snake'.units[i - 1].position)

\* C12: Snake.go clamps the first body unit towards the position the head has
\* after its advance and every further unit towards the position the unit
\* before it has after its own clamp in the same call (a left fold over the
\* body that carries the updated position along).
C12_SequentialFollow == [][C12_GoStep]_vars

\* Snake.go has pulled the second body unit behind the first, which it had
\* pulled behind the head in the same call
C12_Witness ==
    /\ pc = "draw" /\ dt > 0
    /\ Len(snake.units) >= 2
    /\ snake.units[1].position # snake.units[2].position
    /\ distance(snake.head.unit.position, snake.units[1].position) >= 2 * UNIT_RADIUS
    /\ distance(snake.units[1].position, snake.units[2].position) >= 2 * UNIT_RADIUS

\* ------------------------------------------------------------------ C13
C13_GoStep ==
    pc = "go" =>
        LET angle == FMul(rotation, dt)
            old   == snake.head
            new   == snake'.head
        IN  /\ new.direction = rotate(from_angle(angle), old.direction)
            /\ new.unit.position =
                  VAdd(old.unit.position, VMul(new.direction, FMul(old.speed, dt)))
            /\ new.speed = old.speed
            /\ rotation = 0 => new.direction = old.direction
            /\ (angle > 0 /\ angle < 3141) => Cross(old.direction, new.direction) > 0
            /\ (angle < 0 /\ angle > -3141) => Cross(old.direction, new.direction) < 0
            /\ new = SnakeGo([head |-> old, units |-> <<>>], dt, rotation).head

\* C13: Snake.go first rotates the head direction by rotation * dt (counter-
\* clockwise for a positive angle) and then advances the head by speed * dt
\* along the rotated direction; the head step does not depend on the body or
\* the fruit; with rotation 0 the direction is unchanged, and from the initial
\* state a frame without input moves the head to (0.4 * dt, 0): (0.4, 0) after
\* one second.
C13_HeadStep ==
    /\ [][C13_GoStep]_vars
    /\ [](SnakeGo(DefaultSnake, Scale, 0).head.unit.position = Vec(INIT_SPEED, 0))
    /\ []((frames = 0 /\ pc = "draw" /\ rotation = 0 /\ ~Has(log, "default")) =>
            snake.head.unit.position = Vec(FMul(INIT_SPEED, dt), 0))

\* first frame, left key held for a quarter of a second: turned and advanced
C13_Witness ==
    /\ frames = 0 /\ pc = "draw" /\ dt = 250
    /\ rotation = ROTATION_PER_SEC_RAD
    /\ snake.head.direction.y > 0
    /\ snake.head.unit.position.y > 0

\* ------------------------------------------------------------------ C14
InField(p) ==
    /\ p.x >= -(FIELD_SIZE \div 2) /\ p.x <= FIELD_SIZE \div 2
    /\ p.y >= -(FIELD_SIZE \div 2) /\ p.y <= FIELD_SIZE \div 2

\* C14: the fruit of every state (at start, after an eat, after a reset) lies
\* inside the field square, and so does the fruit Fruit::respawn makes of any
\* two values of the random source.
C14_FruitInField ==
    /\ InField(fruit.position)
    /\ frames = 0 /\ pc = "input" =>
          \A r1 \in 0..RandMax, r2 \in 0..RandMax : InField(respawn(r1, r2).position)

\* a fruit respawned into a corner of the field
C14_Witness ==
    /\ Has(log, "respawn")
    /\ Abs(fruit.position.x) = FIELD_SIZE \div 2
    /\ Abs(fruit.position.y) = FIELD_SIZE \div 2

\* ------------------------------------------------------------------ C15
NormSq(v) == v.x * v.x + v.y * v.y

C15_RotateStep ==
    /\ IF pc = "go"
       THEN Abs(length(snake'.head.direction) - length(snake.head.direction)) <= 2 * Tol
       ELSE \/ snake'.head.direction = snake.head.direction
            \/ snake'.head.direction = Vec(Scale, 0)
    /\ snake'.head.speed = snake.head.speed

\* C15: the head direction has length 1 in the initial state, every
\* Head.rotate keeps its length (up to the rounding of the two vectors it
\* computes, which adds up over the rotations, at most one per frame),
\* and the head speed is INIT_SPEED in every state.
C15_UnitDirection ==
    /\ [](frames = 0 /\ pc = "input" => NormSq(snake.head.direction) = Scale * Scale)
    /\ [][C15_RotateStep]_vars
    /\ [](LET slack == 2 * Tol * (frames + 1)
          IN  /\ NormSq(snake.head.direction) >= (Scale - slack) * (Scale - slack)
              /\ NormSq(snake.head.direction) <= (Scale + slack) * (Scale + slack))
    /\ [](snake.head.speed = INIT_SPEED)

\* the head has been rotated in each of three frames
C15_Witness ==
    /\ pc = "draw" /\ frames >= 2 /\ dt > 0 /\ rotation # 0
    /\ ~Has(log, "default")
    /\ snake.head.direction.x < 0
    /\ snake.head.unit.position # ZERO

\* ------------------------------------------------------------------ C16
C16_EatStep == (pc = "eat" /\ ~is_lose(snake)) => ~is_lose(snake')

\* C16: growth alone never causes a loss: when is_lose is false before the eat
\* branch of a frame, it is false after it, whatever the body length.
C16_GrowthNeverLoses == [][C16_EatStep]_vars

\* ------------------------------------------------------------------ C17
C17_Step ==
    /\ (pc = "draw" \/ pc = "input") => snake' = snake
    /\ (pc = "eat" /\ is_lose(snake)) => is_lose(snake')
    /\ (pc = "lose" /\ is_lose(snake)) => snake' = DefaultSnake
    /\ pc' = "go" => ~is_lose(snake')

\* C17: a snake that is lost when a frame ends is still the snake, and still
\* lost, at the loss check of the next frame, which replaces it by the default
\* snake; so Snake.go is only ever called on a snake that is not lost.
C17_LostNeverAdvanced ==
    /\ [][C17_Step]_vars
    /\ [](pc = "go" => ~is_lose(snake))

\* the snake that ended the frame before beyond the wall has been replaced and
\* the default snake is about to be advanced
C17_Witness ==
    /\ pc = "go" /\ frames >= 1
    /\ Has(log, "default") /\ ~Has(log, "add_unit")
    /\ snake = DefaultSnake

\* ------------------------------------------------------------------ C18
C18_Step ==
    /\ pc = "eat" =>
          Len(snake'.units) = Len(snake.units) + (IF HeadTouchesFruit(snake, fruit) THEN 1 ELSE 0)
    /\ pc = "lose" =>
          Len(snake'.units) = (IF Has(log', "default") THEN 0 ELSE Len(snake.units))
    /\ pc = "go" =>
          /\ Len(snake'.units) = Len(snake.units)
          /\ \A i \in 1..Len(snake.units) :
                Dist2(snake'.units[i].position, snake.units[i].position)
                    <= Dist2(Leader(snake', i), snake.units[i].position)
    /\ (pc = "draw" \/ pc = "input") => snake'.units = snake.units

\* C18: the score drawn at the end of a frame is the number of body units and
\* equals the number of frames since the last reset (or the start) whose eat
\* check was true; the body count changes by +1 on an eat, to 0 on a reset and
\* not otherwise: Snake.go neither adds nor removes body units and moves each
\* unit in its place towards its own leader.
C18_ScoreCountsEats ==
    /\ [][C18_Step]_vars
    /\ [](Len(snake.units) = eaten)
    /\ [](FrameDone => score = eaten)

\* two eats since the start, drawn as score 2
C18_Witness ==
    /\ FrameDone /\ eaten = 2 /\ score = 2 /\ dt > 0

\* ------------------------------------------------------------------ C19
\* the coordinate of the playable area nearest to c
Clamp(c) ==
    LET bound == FIELD_SIZE \div 2 - UNIT_RADIUS
    IN  IF c > bound THEN bound ELSE IF c < -bound THEN -bound ELSE c

\* a bodyless snake whose head is at the point of the playable area nearest to p
SnakeNear(p) ==
    [head  |-> [DefaultSnake.head EXCEPT !.unit = Unit(Vec(Clamp(p.x), Clamp(p.y)))],
     units |-> <<>>]

\* the fruit can be eaten by a head that the wall condition does not reject
Eatable(fr) ==
    /\ ~BeyondWall(HeadPosition(SnakeNear(fr.position).head))
    /\ ~intersect_wall(SnakeNear(fr.position))
    /\ ~is_lose(SnakeNear(fr.position))
    /\ can_eat(SnakeNear(fr.position), fr)

\* fruit positions over the whole field, one unit radius apart, the corners
\* and the edges included
FieldGrid ==
    { Vec(i * UNIT_RADIUS - FIELD_SIZE \div 2, j * UNIT_RADIUS - FIELD_SIZE \div 2) :
          i \in 0..FIELD_SIZE \div UNIT_RADIUS, j \in 0..FIELD_SIZE \div UNIT_RADIUS }

Corner(p) == Abs(p.x) = FIELD_SIZE \div 2 /\ Abs(p.y) = FIELD_SIZE \div 2

\* C19: every fruit is eatable without hitting the wall: for every position
\* respawn can produce (each coordinate in [-1, 1], the corners of the field
\* included) there is a head position with |x| and |y| at most
\* FIELD_SIZE/2 - UNIT_RADIUS, at which the wall condition of is_lose is false
\* and can_eat is true; the eat check of the loop then eats that fruit.
C19_Step ==
    (pc = "eat" /\ InField(fruit.position) /\ snake = SnakeNear(fruit.position)) =>
        /\ Has(log', "add_unit")
        /\ Len(snake'.units) = 1
C19_EveryFruitEatable ==
    /\ [][C19_Step]_vars
    /\ [](InField(fruit.position) => Eatable(fruit))
    /\ [](pc = "input" /\ log = <<>> /\ snake.units = <<>> =>
            /\ \A r1, r2 \in 0..RandMax : Eatable(respawn(r1, r2))
            /\ \A p \in FieldGrid : Eatable([position |-> p]))

\* the eat check is about to run with the fruit in a corner of the field and
\* the head inside the playable area, touching it
C19_Witness ==
    /\ pc = "eat"
    /\ Corner(fruit.position)
    /\ ~is_lose(snake)
    /\ snake = SnakeNear(fruit.position)
    /\ can_eat(snake, fruit)

====
